---- MODULE Spec2Model ----
(***************************************************************************)
(* A state-machine model of app.py, the ITS triage kiosk: the flat-file    *)
(* stores and their loaders, the appointment booking and cancellation      *)
(* handlers, the enrollment (registration) capture loop, and the per-frame *)
(* recognition loop.  The program is single-threaded: pc is the place      *)
(* where control is (a window waiting for the operator, or a loop).        *)
(*                                                                         *)
(* Representation choices:                                                 *)
(*  - A face encoding is a vector over Dims whose components are fixed     *)
(*    point numbers in units of 1/Unit; Unit is a multiple of every count  *)
(*    1..NUM_REGISTRATION_IMAGES, so the mean of up to that many capture   *)
(*    vectors (whose components are multiples of Unit) is exact.           *)
(*  - Distances are compared through their squares, which is exact.        *)
(*  - A date string "YYYY-MM-DD" is its day ordinal and a time string      *)
(*    "HH:MM" is the pair <<HH, MM>>: for the fixed-width, zero-padded     *)
(*    strings the booking form produces, Python's string order on          *)
(*    (date, time) is the order on (ordinal, <<HH, MM>>).                  *)
(*  - A JSON object (dict) is a function on a finite set of strings.       *)
(*  - A file is [kind, data]; kind is how reading it ends.                 *)
(***************************************************************************)
EXTENDS Integers, Sequences, FiniteSets

VARIABLES
    pc,                     \* where control is
    PATIENT_RECORDS,        \* app.py:40
    APPOINTMENTS,           \* app.py:41
    DOCTOR_RECORDS,         \* app.py:42
    KNOWN_ENCODINGS,        \* app.py:43
    KNOWN_NAMES,            \* app.py:44
    patientFile,            \* patient_data.json
    apptFile,               \* appointments.json
    doctorFile,             \* doctor_data.json
    encFile,                \* encodings.pkl
    cap,                    \* the cv2.VideoCapture handle of the running flow
    ret,                    \* the flag the last cap.read() returned
    log,                    \* levels of the cyber_log lines of the last step
    notice,                 \* the messagebox the last step showed
    written,                \* the files the last step wrote
    raised,                 \* the exception that escaped to the top level
    doctor_names,           \* create_appointment_form: the doctor drop-down
    displayed,              \* manage_appointments_window: the rows shown, by id
    patient_data,           \* registration_only_flow: patient_data_from_form
    range_next,             \* register_new_user_process: next value of range(...)
    i,                      \* register_new_user_process: the loop variable
    new_encodings,          \* register_new_user_process: accepted encodings
    face_locations,         \* number of faces the last capture attempt found
    face_encodings,         \* face_recognition_loop: encodings of this frame
    patient_name_to_display,\* face_recognition_loop: the panel's identity
    current_details,        \* face_recognition_loop: the details the panel shows
    current_appointments,   \* face_recognition_loop: the appointments it lists
    color,                  \* face_recognition_loop: colour of the panel's ID line
    allergy_color           \* face_recognition_loop: colour of the ALERT line

stores == <<PATIENT_RECORDS, APPOINTMENTS, DOCTOR_RECORDS, KNOWN_ENCODINGS, KNOWN_NAMES>>
files  == <<patientFile, apptFile, doctorFile, encFile>>
camera == <<cap, ret>>
enroll == <<patient_data, range_next, i, new_encodings, face_locations>>
panel  == <<face_encodings, patient_name_to_display, current_details,
            current_appointments, color, allergy_color>>
forms  == <<doctor_names, displayed>>
vars   == <<pc, stores, files, camera, log, notice, written, raised, forms, enroll, panel>>

(***************************************************************************)
(* Bounds of the model and constants of the program.                      *)
(***************************************************************************)
MaxKnown == 2          \* enrollments are offered while the store is shorter
MaxFaces == 2          \* faces detected in one frame
MaxAppts == 3          \* bookings are offered while the list is shorter

NUM_REGISTRATION_IMAGES == 5
Unit      == 3 * 4 * 5                 \* 1.0 in fixed point: lcm of 1..5
TOLERANCE == (6 * Unit) \div 10        \* 0.6

Dims == {1, 2}

(***************************************************************************)
(* Dictionaries.                                                           *)
(***************************************************************************)
EmptyDict == [k \in {} |-> {}]

DictPut(d, k, v) == [x \in (DOMAIN d) \cup {k} |-> IF x = k THEN v ELSE d[x]]

\* str.lower() on the strings of the model
Lower(s) ==
    CASE s = "Unknown" -> "unknown"
      [] s = "Ann"     -> "ann"
      [] OTHER         -> s

(***************************************************************************)
(* Message boxes: the kind of box, its message and the appointment id it   *)
(* names (0 when it names none).                                           *)
(***************************************************************************)
Notice(kind, msg, id) == [kind |-> kind, msg |-> msg, id |-> id]

NoNotice == Notice("none", "", 0)

(***************************************************************************)
(* File contents.                                                          *)
(***************************************************************************)
MissingFile    == [kind |-> "missing", data |-> <<>>]
SyntaxFile     == [kind |-> "syntax", data |-> <<>>]   \* json.JSONDecodeError
BytesFile      == [kind |-> "bytes", data |-> <<>>]    \* UnicodeDecodeError
JsonFile(data) == [kind |-> "json", data |-> data]

UnreadableFile   == [kind |-> "unreadable", data |-> <<>>]  \* open() raises OSError
UnpicklableFile  == [kind |-> "unpicklable", data |-> <<>>] \* pickle.load raises
NoKeysFile       == [kind |-> "nokeys", data |-> <<>>]      \* unpickles, lacks the keys
PickleFile(encodings, names) ==
    [kind |-> "pickle", data |-> [encodings |-> encodings, names |-> names]]

(***************************************************************************)
(* Records and the values the operator and the camera can supply.         *)
(***************************************************************************)
Details(allergies) ==
    [age |-> "30", gender |-> "F", allergies |-> allergies,
     history |-> "asthma", last_visit |-> "2025-01-01 09:00:00"]

Appt(name, date, time, reason, doctor) ==
    [name |-> name, date |-> date, time |-> time, reason |-> reason, doctor |-> doctor]

DoctorRec ==
    [specialization |-> "GP", contact |-> "555",
     schedule |-> [days |-> <<"Mon">>, start_time |-> "09:00", end_time |-> "17:00"]]

\* entries of an appointments file that lack a key the program reads
NoDateAppt == [name |-> "ann", time |-> <<9, 0>>, reason |-> "checkup", doctor |-> "drx"]
NoNameAppt == [date |-> 1, time |-> <<9, 0>>, reason |-> "checkup", doctor |-> "drx"]

Dates         == {1, 2}
HourChoices   == {1, 12}          \* of the drop-down's 01..12
MinuteChoices == {30}             \* of the drop-down's 00, 15, 30, 45
AmPm          == {"AM", "PM"}

\* what the camera can show: capture vectors and query vectors
CaptureVecs == {<<Unit, 0>>, <<0, Unit>>}
QueryVecs   == {<<Unit, 0>>, <<Unit \div 2, Unit \div 2>>}

\* the files as the program finds them when it starts
InitPatientFiles ==
    {MissingFile, SyntaxFile, BytesFile, JsonFile(EmptyDict),
     JsonFile(DictPut(EmptyDict, "ann", Details("Peanuts")))}

InitApptFiles ==
    {MissingFile, SyntaxFile, BytesFile, JsonFile(<<>>),
     JsonFile(<<Appt("ann", 2, <<9, 0>>, "followup", "drx"),
                Appt("Ann", 1, <<9, 0>>, "checkup", "drx"),
                Appt("bob", 1, <<13, 30>>, "checkup", "drx")>>),
     JsonFile(<<NoDateAppt>>), JsonFile(<<NoNameAppt>>)}

InitDoctorFiles ==
    {MissingFile, SyntaxFile, BytesFile, JsonFile(EmptyDict),
     JsonFile(DictPut(EmptyDict, "drx", DoctorRec))}

InitEncFiles ==
    {MissingFile, UnreadableFile, UnpicklableFile, NoKeysFile,
     PickleFile(<<>>, <<>>),
     PickleFile(<<(<<Unit, 0>>)>>, <<"ann">>),
     PickleFile(<<(<<(2 * Unit) \div 3, Unit \div 3>>)>>, <<"ann">>)}

(***************************************************************************)
(* The state when the interpreter has run the module's top-level           *)
(* assignments (app.py:40-44) and is about to load the stores.             *)
(***************************************************************************)
NoPatient == [name |-> "", details |-> EmptyDict]

Init ==
    /\ pc = "load_patient_records"
    /\ PATIENT_RECORDS = EmptyDict
    /\ APPOINTMENTS = <<>>
    /\ DOCTOR_RECORDS = EmptyDict
    /\ KNOWN_ENCODINGS = <<>>
    /\ KNOWN_NAMES = <<>>
    /\ patientFile \in InitPatientFiles
    /\ apptFile \in InitApptFiles
    /\ doctorFile \in InitDoctorFiles
    /\ encFile \in InitEncFiles
    /\ cap = "none"
    /\ ret = FALSE
    /\ log = <<>>
    /\ notice = NoNotice
    /\ written = {}
    /\ raised = "none"
    /\ doctor_names = {}
    /\ displayed = <<>>
    /\ patient_data = NoPatient
    /\ range_next = 0
    /\ i = 0
    /\ new_encodings = <<>>
    /\ face_locations = 0
    /\ face_encodings = <<>>
    /\ patient_name_to_display = "Unknown"
    /\ current_details = EmptyDict
    /\ current_appointments = <<>>
    /\ color = "none"
    /\ allergy_color = "none"

(***************************************************************************)
(* Sorting: list.sort(key=lambda x: (x['date'], x['time'])), a stable      *)
(* sort.                                                                   *)
(***************************************************************************)
TimeLess(s, t) == s[1] < t[1] \/ (s[1] = t[1] /\ s[2] < t[2])

KeyLess(a, b) == a.date < b.date \/ (a.date = b.date /\ TimeLess(a.time, b.time))

\* x placed behind every element whose key is not greater than x's
RECURSIVE InsertByKey(_, _)
InsertByKey(sorted, x) ==
    IF sorted = <<>> THEN <<x>>
    ELSE IF KeyLess(x, Head(sorted)) THEN <<x>> \o sorted
    ELSE <<Head(sorted)>> \o InsertByKey(Tail(sorted), x)

RECURSIVE SortFrom(_, _)
SortFrom(done, rest) ==
    IF rest = <<>> THEN done
    ELSE SortFrom(InsertByKey(done, Head(rest)), Tail(rest))

SortByDateTime(list) == SortFrom(<<>>, list)

HasSortKeys(list) ==
    \A k \in 1..Len(list) : {"date", "time"} \subseteq DOMAIN list[k]

(***************************************************************************)
(* The loaders, called in this order by __main__ (app.py:1155-1158).  An   *)
(* exception none of them catches ends the process.                        *)
(***************************************************************************)
Quiet == /\ notice' = NoNotice
         /\ UNCHANGED <<camera, forms, enroll, panel>>

load_patient_records ==
    /\ pc = "load_patient_records"
    /\ \/ /\ patientFile.kind = "json"
          /\ PATIENT_RECORDS' = patientFile.data
          /\ log' = <<"INFO">>
          /\ UNCHANGED <<patientFile, raised>>
          /\ written' = {}
          /\ pc' = "load_appointments"
       \/ /\ patientFile.kind = "syntax"
          /\ PATIENT_RECORDS' = EmptyDict
          /\ log' = <<"CRITICAL">>
          /\ UNCHANGED <<patientFile, raised>>
          /\ written' = {}
          /\ pc' = "load_appointments"
       \/ /\ patientFile.kind = "bytes"
          /\ raised' = "UnicodeDecodeError"
          /\ log' = <<>>
          /\ UNCHANGED <<PATIENT_RECORDS, patientFile>>
          /\ written' = {}
          /\ pc' = "exit"
       \/ /\ patientFile.kind = "missing"
          /\ PATIENT_RECORDS' = EmptyDict
          /\ log' = <<"WARNING">>
          /\ patientFile' = JsonFile(EmptyDict)
          /\ written' = {"patients"}
          /\ UNCHANGED raised
          /\ pc' = "load_appointments"
    /\ UNCHANGED <<APPOINTMENTS, DOCTOR_RECORDS, KNOWN_ENCODINGS, KNOWN_NAMES,
                   apptFile, doctorFile, encFile>>
    /\ Quiet

load_appointments ==
    /\ pc = "load_appointments"
    /\ \/ /\ apptFile.kind = "json"
          /\ HasSortKeys(apptFile.data)
          /\ APPOINTMENTS' = SortByDateTime(apptFile.data)
          /\ log' = <<"INFO">>
          /\ UNCHANGED <<apptFile, raised>>
          /\ written' = {}
          /\ pc' = "load_doctor_records"
       \/ /\ apptFile.kind = "json"
          /\ ~HasSortKeys(apptFile.data)
          /\ APPOINTMENTS' = apptFile.data      \* assigned before the sort raises
          /\ raised' = "KeyError"
          /\ log' = <<>>
          /\ UNCHANGED apptFile
          /\ written' = {}
          /\ pc' = "exit"
       \/ /\ apptFile.kind = "syntax"
          /\ APPOINTMENTS' = <<>>
          /\ log' = <<"CRITICAL">>
          /\ UNCHANGED <<apptFile, raised>>
          /\ written' = {}
          /\ pc' = "load_doctor_records"
       \/ /\ apptFile.kind = "bytes"
          /\ raised' = "UnicodeDecodeError"
          /\ log' = <<>>
          /\ UNCHANGED <<APPOINTMENTS, apptFile>>
          /\ written' = {}
          /\ pc' = "exit"
       \/ /\ apptFile.kind = "missing"
          /\ APPOINTMENTS' = <<>>
          /\ log' = <<"WARNING">>
          /\ apptFile' = JsonFile(<<>>)
          /\ written' = {"appointments"}
          /\ UNCHANGED raised
          /\ pc' = "load_doctor_records"
    /\ UNCHANGED <<PATIENT_RECORDS, DOCTOR_RECORDS, KNOWN_ENCODINGS, KNOWN_NAMES,
                   patientFile, doctorFile, encFile>>
    /\ Quiet

load_doctor_records ==
    /\ pc = "load_doctor_records"
    /\ \/ /\ doctorFile.kind = "json"
          /\ DOCTOR_RECORDS' = doctorFile.data
          /\ log' = <<"INFO">>
          /\ UNCHANGED <<doctorFile, raised>>
          /\ written' = {}
          /\ pc' = "load_known_faces"
       \/ /\ doctorFile.kind = "syntax"
          /\ DOCTOR_RECORDS' = EmptyDict
          /\ log' = <<"CRITICAL">>
          /\ UNCHANGED <<doctorFile, raised>>
          /\ written' = {}
          /\ pc' = "load_known_faces"
       \/ /\ doctorFile.kind = "bytes"
          /\ raised' = "UnicodeDecodeError"
          /\ log' = <<>>
          /\ UNCHANGED <<DOCTOR_RECORDS, doctorFile>>
          /\ written' = {}
          /\ pc' = "exit"
       \/ /\ doctorFile.kind = "missing"
          /\ DOCTOR_RECORDS' = EmptyDict
          /\ log' = <<"WARNING">>
          /\ doctorFile' = JsonFile(EmptyDict)
          /\ written' = {"doctors"}
          /\ UNCHANGED raised
          /\ pc' = "load_known_faces"
    /\ UNCHANGED <<PATIENT_RECORDS, APPOINTMENTS, KNOWN_ENCODINGS, KNOWN_NAMES,
                   patientFile, apptFile, encFile>>
    /\ Quiet

LoadKnownFacesResult_NarrowExcept(file) ==
    IF file.kind = "pickle"
    THEN [encodings |-> file.data.encodings, names |-> file.data.names,
          log |-> <<"INFO">>, raised |-> "none"]
    ELSE IF file.kind = "unpicklable"
    THEN [encodings |-> <<>>, names |-> <<>>,
          log |-> <<"INFO", "CRITICAL">>, raised |-> "none"]
    ELSE IF file.kind \in {"unreadable", "nokeys"}
    THEN [encodings |-> <<>>, names |-> <<>>,
          log |-> <<"INFO">>, raised |-> "Exception"]
    ELSE [encodings |-> <<>>, names |-> <<>>,
          log |-> <<"WARNING">>, raised |-> "none"]

\* load_known_faces(): what it returns and what it logs
LoadKnownFacesResult(file) ==
    IF file.kind = "pickle"
    THEN [encodings |-> file.data.encodings, names |-> file.data.names,
          log |-> <<"INFO">>, raised |-> "none"]
    ELSE IF file.kind \in {"unreadable", "unpicklable", "nokeys"}
    THEN [encodings |-> <<>>, names |-> <<>>,
          log |-> <<"INFO", "CRITICAL">>, raised |-> "none"]      \* except Exception
    ELSE [encodings |-> <<>>, names |-> <<>>,
          log |-> <<"WARNING">>, raised |-> "none"]               \* no file

\* KNOWN_ENCODINGS, KNOWN_NAMES = load_known_faces()   (app.py:1158)
load_known_faces ==
    /\ pc = "load_known_faces"
    /\ LET r == LoadKnownFacesResult(encFile) IN
       /\ log' = r.log
       /\ raised' = r.raised
       /\ IF r.raised = "none"
          THEN /\ KNOWN_ENCODINGS' = r.encodings
               /\ KNOWN_NAMES' = r.names
               /\ pc' = "main"
          ELSE /\ UNCHANGED <<KNOWN_ENCODINGS, KNOWN_NAMES>>
               /\ pc' = "exit"
    /\ written' = {}
    /\ UNCHANGED <<PATIENT_RECORDS, APPOINTMENTS, DOCTOR_RECORDS, files>>
    /\ Quiet

\* the rest of __main__: the warning when nothing is known, then main_menu()
main ==
    /\ pc = "main"
    /\ log' = IF Len(KNOWN_ENCODINGS) = 0 THEN <<"WARNING">> ELSE <<>>
    /\ pc' = "menu"
    /\ written' = {}
    /\ UNCHANGED <<stores, files, raised>>
    /\ Quiet

(***************************************************************************)
(* Appointments: booking (create_appointment_form) and the management      *)
(* window (manage_appointments_window).                                    *)
(***************************************************************************)
NoDoctors == "No Doctors Registered"

\* the form takes any non-empty name, the name of the match sentinel included
ApptNameInputs == {"", "ann", "Unknown"}
ReasonInputs   == {"", "checkup"}
Nows           == {[date |-> 1, time |-> <<0, 0>>], [date |-> 2, time |-> <<12, 15>>]}

\* strptime("%I:%M %p") then strftime("%H:%M")
To24h(hour, minute, ampm) ==
    <<(hour % 12) + (IF ampm = "PM" THEN 12 ELSE 0), minute>>

AddAppointment_NoSort(list, data) == Append(list, data)

\* add_appointment(data): append, sort, save
AddAppointment(list, data) == SortByDateTime(Append(list, data))

start_appointment_flow ==
    /\ pc = "menu"
    /\ doctor_names' = IF DOMAIN DOCTOR_RECORDS = {} THEN {NoDoctors}
                       ELSE DOMAIN DOCTOR_RECORDS
    /\ pc' = "apptform"
    /\ log' = <<>> /\ notice' = NoNotice /\ written' = {}
    /\ UNCHANGED <<stores, files, camera, raised, displayed, enroll, panel>>

NoDoctorChosen_Never(doctor_assigned) == FALSE

\* the test of app.py:410
NoDoctorChosen(doctor_assigned) == doctor_assigned = NoDoctors

\* create_appointment_form.submit
submit_appointment ==
    /\ pc = "apptform"
    /\ Len(APPOINTMENTS) < MaxAppts
    /\ \E patient_name \in ApptNameInputs, reason \in ReasonInputs,
          doctor_assigned \in doctor_names, date \in Dates, hour \in HourChoices,
          minute \in MinuteChoices, ampm \in AmPm, now \in Nows :
          LET formatted_time == To24h(hour, minute, ampm)
              data == Appt(patient_name, date, formatted_time, reason, doctor_assigned)
          IN
          IF patient_name = "" \/ reason = ""
          THEN /\ notice' = Notice("error", "fields", 0)
               /\ log' = <<>> /\ written' = {}
               /\ UNCHANGED <<pc, APPOINTMENTS, apptFile, doctor_names>>
          ELSE IF NoDoctorChosen(doctor_assigned)
          THEN /\ notice' = Notice("error", "no doctor", 0)
               /\ log' = <<>> /\ written' = {}
               /\ UNCHANGED <<pc, APPOINTMENTS, apptFile, doctor_names>>
          ELSE IF KeyLess(data, now)
          THEN /\ notice' = Notice("error", "past", 0)
               /\ log' = <<>> /\ written' = {}
               /\ UNCHANGED <<pc, APPOINTMENTS, apptFile, doctor_names>>
          ELSE /\ APPOINTMENTS' = AddAppointment(APPOINTMENTS, data)
               /\ apptFile' = JsonFile(APPOINTMENTS')
               /\ written' = {"appointments"}
               /\ log' = <<"SUCCESS">>
               /\ notice' = Notice("info", "booked", 0)
               /\ doctor_names' = {}
               /\ pc' = "menu"
    /\ UNCHANGED <<PATIENT_RECORDS, DOCTOR_RECORDS, KNOWN_ENCODINGS, KNOWN_NAMES,
                   patientFile, doctorFile, encFile, camera, raised, displayed,
                   enroll, panel>>

close_appointment_form ==
    /\ pc = "apptform"
    /\ pc' = "menu"
    /\ doctor_names' = {}
    /\ log' = <<>> /\ notice' = NoNotice /\ written' = {}
    /\ UNCHANGED <<stores, files, camera, raised, displayed, enroll, panel>>

\* the rows of the management window read appt['reason'] and appt['name']
Displayable(list) ==
    \A k \in 1..Len(list) : {"name", "reason", "date", "time"} \subseteq DOMAIN list[k]

start_appointment_manage ==
    /\ pc = "menu"
    /\ IF Displayable(APPOINTMENTS)
       THEN pc' = "manage" /\ displayed' = APPOINTMENTS /\ UNCHANGED raised
       ELSE pc' = "exit" /\ raised' = "KeyError" /\ UNCHANGED displayed
    /\ log' = <<>> /\ notice' = NoNotice /\ written' = {}
    /\ UNCHANGED <<stores, files, camera, doctor_names, enroll, panel>>

\* what the operator can type into the appointment id entry
IdInputs == -1 .. MaxAppts + 1

DeleteAt_ById(list, appt_index) ==
    SubSeq(list, 1, appt_index + 1) \o SubSeq(list, appt_index + 3, Len(list))

\* del APPOINTMENTS[appt_index], appt_index counted from 0
DeleteAt(list, appt_index) ==
    SubSeq(list, 1, appt_index) \o SubSeq(list, appt_index + 2, Len(list))

InvalidIndex_OffByOne(appt_index, list) == appt_index < 0 \/ appt_index > Len(list)

\* the validation of cancel_appointment (app.py:539)
InvalidIndex(appt_index, list) == appt_index < 0 \/ appt_index >= Len(list)

\* manage_appointments_window.cancel_appointment; after a cancellation the
\* window is destroyed and built again from the current list
cancel_appointment ==
    /\ pc = "manage"
    /\ \E numeric \in BOOLEAN, appt_id \in IdInputs, confirm \in BOOLEAN :
          IF ~numeric                                   \* int() raises ValueError
          THEN /\ notice' = Notice("error", "not a number", 0)
               /\ log' = <<>> /\ written' = {}
               /\ UNCHANGED <<APPOINTMENTS, apptFile, displayed>>
          ELSE LET appt_index == appt_id - 1
               IN
               IF InvalidIndex(appt_index, APPOINTMENTS)
               THEN /\ notice' = Notice("error", "invalid id", appt_id)
                    /\ log' = <<>> /\ written' = {}
                    /\ UNCHANGED <<APPOINTMENTS, apptFile, displayed>>
               ELSE IF ~confirm                         \* askyesno answered No
               THEN /\ notice' = Notice("ask", "confirm cancellation", appt_id)
                    /\ log' = <<>> /\ written' = {}
                    /\ UNCHANGED <<APPOINTMENTS, apptFile, displayed>>
               ELSE /\ APPOINTMENTS' = DeleteAt(APPOINTMENTS, appt_index)
                    /\ apptFile' = JsonFile(APPOINTMENTS')
                    /\ written' = {"appointments"}
                    /\ log' = <<"SUCCESS">>
                    /\ notice' = Notice("info", "cancelled", appt_id)
                    /\ displayed' = APPOINTMENTS'       \* the window is rebuilt
    /\ UNCHANGED <<pc, PATIENT_RECORDS, DOCTOR_RECORDS, KNOWN_ENCODINGS, KNOWN_NAMES,
                   patientFile, doctorFile, encFile, camera, raised, doctor_names,
                   enroll, panel>>

close_manage_window ==
    /\ pc = "manage"
    /\ pc' = "menu"
    /\ displayed' = <<>>
    /\ log' = <<>> /\ notice' = NoNotice /\ written' = {}
    /\ UNCHANGED <<stores, files, camera, raised, doctor_names, enroll, panel>>

\* the Exit Application button: the menu's mainloop returns and every
\* enclosing call returns after it
exit_application ==
    /\ pc = "menu"
    /\ pc' = "exit"
    /\ log' = <<>> /\ notice' = NoNotice /\ written' = {}
    /\ UNCHANGED <<stores, files, camera, raised, forms, enroll, panel>>

(***************************************************************************)
(* Doctors: doctor_management_menu and create_doctor_registration_form.    *)
(***************************************************************************)
DoctorNameInputs == {"", "drx"}
DayInputs        == {<<>>, <<"Mon">>}
TimeInputs       == {"", "9am", "09:00"}

\* validate_time: datetime.strptime(time_str, "%H:%M") succeeds
validate_time(time_str) == time_str \in {"09:00", "17:00"}

start_doctor_management ==
    /\ pc = "menu"
    /\ pc' = "docmenu"
    /\ log' = <<>> /\ notice' = NoNotice /\ written' = {}
    /\ UNCHANGED <<stores, files, camera, raised, forms, enroll, panel>>

start_doctor_registration ==
    /\ pc = "docmenu"
    /\ pc' = "docform"
    /\ log' = <<>> /\ notice' = NoNotice /\ written' = {}
    /\ UNCHANGED <<stores, files, camera, raised, forms, enroll, panel>>

SaveDoctorRecord_KeepsPrevious(records, name, data) ==
    IF name \in DOMAIN records
    THEN DictPut(records, name, DictPut(data, "previous", records[name]))
    ELSE DictPut(records, name, data)

\* save_doctor_record(name, data)
SaveDoctorRecord(records, name, data) == DictPut(records, name, data)

\* the form with the record saved before the identifier is looked up
submit_doctor_SavesThenChecks ==
    /\ pc = "docform"
    /\ \E name \in DoctorNameInputs, available_days \in DayInputs,
          start_time \in TimeInputs :
          LET end_time == "17:00"
              data == [specialization |-> "GP", contact |-> "555",
                       schedule |-> [days |-> available_days,
                                     start_time |-> start_time, end_time |-> end_time]]
          IN
          IF name = "" \/ start_time = ""
          THEN /\ notice' = Notice("error", "fields", 0)
               /\ log' = <<>> /\ written' = {}
               /\ UNCHANGED <<pc, DOCTOR_RECORDS, doctorFile>>
          ELSE IF available_days = <<>>
          THEN /\ notice' = Notice("error", "days", 0)
               /\ log' = <<>> /\ written' = {}
               /\ UNCHANGED <<pc, DOCTOR_RECORDS, doctorFile>>
          ELSE IF ~validate_time(start_time) \/ ~validate_time(end_time)
          THEN /\ notice' = Notice("error", "time format", 0)
               /\ log' = <<>> /\ written' = {}
               /\ UNCHANGED <<pc, DOCTOR_RECORDS, doctorFile>>
          ELSE /\ DOCTOR_RECORDS' = SaveDoctorRecord(DOCTOR_RECORDS, name, data)
               /\ doctorFile' = JsonFile(DOCTOR_RECORDS')
               /\ written' = {"doctors"}
               /\ log' = <<"SUCCESS">>
               /\ IF name \in DOMAIN DOCTOR_RECORDS
                  THEN notice' = Notice("error", "doctor exists", 0) /\ UNCHANGED pc
                  ELSE notice' = Notice("info", "doctor registered", 0) /\ pc' = "docmenu"
    /\ UNCHANGED <<PATIENT_RECORDS, APPOINTMENTS, KNOWN_ENCODINGS, KNOWN_NAMES,
                   patientFile, apptFile, encFile, camera, raised, forms,
                   enroll, panel>>

\* create_doctor_registration_form.submit
submit_doctor ==
    /\ pc = "docform"
    /\ \E name \in DoctorNameInputs, available_days \in DayInputs,
          start_time \in TimeInputs :
          LET end_time == "17:00"
              data == [specialization |-> "GP", contact |-> "555",
                       schedule |-> [days |-> available_days,
                                     start_time |-> start_time, end_time |-> end_time]]
          IN
          IF name = "" \/ start_time = ""
          THEN /\ notice' = Notice("error", "fields", 0)
               /\ log' = <<>> /\ written' = {}
               /\ UNCHANGED <<pc, DOCTOR_RECORDS, doctorFile>>
          ELSE IF available_days = <<>>
          THEN /\ notice' = Notice("error", "days", 0)
               /\ log' = <<>> /\ written' = {}
               /\ UNCHANGED <<pc, DOCTOR_RECORDS, doctorFile>>
          ELSE IF ~validate_time(start_time) \/ ~validate_time(end_time)
          THEN /\ notice' = Notice("error", "time format", 0)
               /\ log' = <<>> /\ written' = {}
               /\ UNCHANGED <<pc, DOCTOR_RECORDS, doctorFile>>
          ELSE IF name \in DOMAIN DOCTOR_RECORDS
          THEN /\ notice' = Notice("error", "doctor exists", 0)
               /\ log' = <<>> /\ written' = {}
               /\ UNCHANGED <<pc, DOCTOR_RECORDS, doctorFile>>
          ELSE /\ DOCTOR_RECORDS' = SaveDoctorRecord(DOCTOR_RECORDS, name, data)
               /\ doctorFile' = JsonFile(DOCTOR_RECORDS')
               /\ written' = {"doctors"}
               /\ log' = <<"SUCCESS">>
               /\ notice' = Notice("info", "doctor registered", 0)
               /\ pc' = "docmenu"
    /\ UNCHANGED <<PATIENT_RECORDS, APPOINTMENTS, KNOWN_ENCODINGS, KNOWN_NAMES,
                   patientFile, apptFile, encFile, camera, raised, forms,
                   enroll, panel>>

\* the form has no close handler of its own: closing it returns to the menu
close_doctor_form ==
    /\ pc = "docform"
    /\ pc' = "docmenu"
    /\ log' = <<>> /\ notice' = NoNotice /\ written' = {}
    /\ UNCHANGED <<stores, files, camera, raised, forms, enroll, panel>>

back_to_main_menu ==
    /\ pc = "docmenu"
    /\ pc' = "menu"
    /\ log' = <<>> /\ notice' = NoNotice /\ written' = {}
    /\ UNCHANGED <<stores, files, camera, raised, forms, enroll, panel>>

(***************************************************************************)
(* Registration: registration_only_flow, create_registration_form and      *)
(* register_new_user_process.                                              *)
(***************************************************************************)
RegNameInputs    == {"", "Unknown", "ann", "bob"}
AllergyInputs    == {"", "None", "Peanuts"}
FaceCounts       == {0, 1, 2}

start_registration_flow ==
    /\ pc = "menu"
    /\ Len(KNOWN_NAMES) < MaxKnown
    /\ pc' = "regform"
    /\ log' = <<"INFO">> /\ notice' = NoNotice /\ written' = {}
    /\ UNCHANGED <<stores, files, camera, raised, forms, enroll, panel>>

ReservedName_CaseSensitive(name) == name = "unknown" \/ name = ""

\* the test of app.py:236: name.lower() == "unknown" or not name
ReservedName(name) == Lower(name) = "unknown" \/ name = ""

\* create_registration_form.submit; on success the form returns form_data
submit_registration ==
    /\ pc = "regform"
    /\ \E name \in RegNameInputs, allergies \in AllergyInputs :
          IF name = "" \/ allergies = ""                 \* not all(data.values())
          THEN /\ notice' = Notice("error", "fields", 0)
               /\ UNCHANGED <<pc, patient_data>>
          ELSE IF ReservedName(name)
          THEN /\ notice' = Notice("error", "name unknown", 0)
               /\ UNCHANGED <<pc, patient_data>>
          ELSE IF name \in DOMAIN PATIENT_RECORDS
          THEN /\ notice' = Notice("error", "patient exists", 0)
               /\ UNCHANGED <<pc, patient_data>>
          ELSE /\ patient_data' = [name |-> name, details |-> Details(allergies)]
               /\ notice' = NoNotice
               /\ pc' = "reg_open_camera"
    /\ log' = <<>> /\ written' = {}
    /\ UNCHANGED <<stores, files, camera, raised, forms, range_next, i,
                   new_encodings, face_locations, panel>>

\* WM_DELETE_WINDOW: form_data is cleared, the flow goes back to the menu
close_registration_form ==
    /\ pc = "regform"
    /\ pc' = "menu"
    /\ log' = <<>> /\ notice' = NoNotice /\ written' = {}
    /\ UNCHANGED <<stores, files, camera, raised, forms, enroll, panel>>

\* cap = cv2.VideoCapture(0) in registration_only_flow (app.py:940-946)
open_registration_camera ==
    /\ pc = "reg_open_camera"
    /\ \E opened \in BOOLEAN :
          IF opened
          THEN /\ cap' = "open"
               /\ pc' = "enroll"
               /\ range_next' = 0 /\ i' = 0 /\ new_encodings' = <<>>
               /\ log' = <<>> /\ notice' = NoNotice
               /\ UNCHANGED patient_data
          ELSE /\ cap' = "none"
               /\ pc' = "menu"
               /\ patient_data' = NoPatient
               /\ log' = <<"CRITICAL">>
               /\ notice' = Notice("error", "webcam", 0)
               /\ UNCHANGED <<range_next, i, new_encodings>>
    /\ written' = {}
    /\ UNCHANGED <<stores, files, ret, raised, forms, face_locations, panel>>

AfterAttempt_RetryKeepsSlot(next, retry) == IF retry THEN next ELSE next + 1

\* what "for i in range(NUM_REGISTRATION_IMAGES)" hands out after an
\* iteration, whether or not the body asked for a retry
AfterAttempt(next, retry) == next + 1

\* one iteration of "for i in range(NUM_REGISTRATION_IMAGES)": the loop
\* variable is taken from the range, whatever the body assigned to it
capture_attempt ==
    /\ pc = "enroll"
    /\ range_next < NUM_REGISTRATION_IMAGES
    /\ \/ /\ ret' = FALSE                       \* the first read fails
          /\ range_next' = AfterAttempt(range_next, FALSE)
          /\ i' = range_next
          /\ log' = <<"INFO", "WARNING">>
          /\ written' = {}
          /\ UNCHANGED <<new_encodings, face_locations>>
       \/ /\ ret' = FALSE                       \* the second read fails
          /\ range_next' = AfterAttempt(range_next, FALSE)
          /\ i' = range_next
          /\ log' = <<"INFO">>
          /\ written' = {}
          /\ UNCHANGED <<new_encodings, face_locations>>
       \/ \E n \in FaceCounts, face_encoding \in CaptureVecs :
             /\ ret' = TRUE
             /\ range_next' = AfterAttempt(range_next, n # 1)
             /\ face_locations' = n
             /\ IF n = 1
                THEN /\ new_encodings' = Append(new_encodings, face_encoding)
                     /\ i' = range_next
                     /\ log' = <<"INFO", "SUCCESS">>
                     /\ written' = {"image"}
                ELSE /\ UNCHANGED new_encodings
                     /\ i' = range_next - 1     \* i -= 1, then continue
                     /\ log' = <<"INFO", "WARNING">>
                     /\ written' = {}
    /\ notice' = NoNotice
    /\ UNCHANGED <<pc, stores, files, cap, raised, forms, patient_data, panel>>

SavePatientRecord_OnlyWritesFile(records, name, data) == records

\* save_patient_record(name, data)
SavePatientRecord(records, name, data) == DictPut(records, name, data)

RECURSIVE SumOf(_, _)
SumOf(vectors, d) ==
    IF vectors = <<>> THEN 0 ELSE Head(vectors)[d] + SumOf(Tail(vectors), d)

Mean_OfFirst(vectors) == vectors[1]

\* np.mean(new_encodings, axis=0)
Mean(vectors) == [d \in Dims |-> SumOf(vectors, d) \div Len(vectors)]

\* the test of app.py:915, negated
EnoughCaptures(encodings) == encodings # <<>>

CaptureFailureNotice_Silent == NoNotice

\* messagebox.showerror of app.py:916
CaptureFailureNotice == Notice("error", "captures", 0)

\* the end of register_new_user_process and of registration_only_flow: the
\* averaging, the two saves, finally cap.release(), then main_menu().  The
\* write of an encodings file that cannot be opened for reading may fail or
\* not.
finish_registration ==
    /\ pc = "enroll"
    /\ range_next = NUM_REGISTRATION_IMAGES
    /\ cap' = "released"
    /\ \/ /\ ~EnoughCaptures(new_encodings)
          /\ notice' = CaptureFailureNotice
          /\ log' = <<>> /\ written' = {}
          /\ pc' = "menu"
          /\ UNCHANGED <<stores, files, raised>>
       \/ /\ EnoughCaptures(new_encodings)
          /\ KNOWN_ENCODINGS' = Append(KNOWN_ENCODINGS, Mean(new_encodings))
          /\ KNOWN_NAMES' = Append(KNOWN_NAMES, patient_data.name)
          /\ \/ /\ encFile' = PickleFile(KNOWN_ENCODINGS', KNOWN_NAMES')
                /\ PATIENT_RECORDS' =
                      SavePatientRecord(PATIENT_RECORDS, patient_data.name,
                                        patient_data.details)
                /\ patientFile' = JsonFile(PATIENT_RECORDS')
                /\ written' = {"encodings", "patients"}
                /\ log' = <<"SUCCESS", "SUCCESS">>
                /\ notice' = Notice("info", "registration complete", 0)
                /\ pc' = "menu"
                /\ UNCHANGED raised
             \/ /\ encFile.kind = "unreadable"       \* open(..., "wb") raises
                /\ raised' = "OSError"
                /\ written' = {}
                /\ log' = <<>>
                /\ notice' = NoNotice
                /\ pc' = "exit"
                /\ UNCHANGED <<PATIENT_RECORDS, patientFile, encFile>>
          /\ UNCHANGED <<APPOINTMENTS, DOCTOR_RECORDS, apptFile, doctorFile>>
    /\ patient_data' = NoPatient
    /\ range_next' = 0 /\ i' = 0 /\ new_encodings' = <<>> /\ face_locations' = 0
    /\ UNCHANGED <<ret, forms, panel>>

(***************************************************************************)
(* Recognition: face_recognition_loop.                                     *)
(***************************************************************************)
DistanceSq(a, b) ==
    LET sq(x) == x * x IN sq(a[1] - b[1]) + sq(a[2] - b[2])

\* face_recognition.compare_faces: face_distance(...) <= tolerance
compare_faces(known, face_encoding, tolerance) ==
    [k \in 1..Len(known) |->
        DistanceSq(known[k], face_encoding) <= tolerance * tolerance]

ArgMinDistance_Last(known, face_encoding) ==
    CHOOSE k \in 1..Len(known) :
        /\ \A j \in 1..Len(known) :
              DistanceSq(known[k], face_encoding) <= DistanceSq(known[j], face_encoding)
        /\ \A j \in (k + 1)..Len(known) :
              DistanceSq(known[j], face_encoding) > DistanceSq(known[k], face_encoding)

\* np.argmin(face_recognition.face_distance(...)): the first least index
ArgMinDistance(known, face_encoding) ==
    CHOOSE k \in 1..Len(known) :
        /\ \A j \in 1..Len(known) :
              DistanceSq(known[k], face_encoding) <= DistanceSq(known[j], face_encoding)
        /\ \A j \in 1..(k - 1) :
              DistanceSq(known[j], face_encoding) > DistanceSq(known[k], face_encoding)

MatchFace_FirstWithin(known, names, face_encoding, tolerance) ==
    LET matches == compare_faces(known, face_encoding, tolerance) IN
    IF known # <<>> /\ (\E k \in 1..Len(known) : matches[k])
    THEN names[CHOOSE k \in 1..Len(known) :
                  matches[k] /\ \A j \in 1..(k - 1) : ~matches[j]]
    ELSE "Unknown"

\* the match step of app.py:999-1005
MatchFace(known, names, face_encoding, tolerance) ==
    LET matches == compare_faces(known, face_encoding, tolerance) IN
    IF known # <<>> /\ (\E k \in 1..Len(known) : matches[k])
    THEN names[ArgMinDistance(known, face_encoding)]
    ELSE "Unknown"

RECURSIVE NameToDisplay_LastRecognized(_, _)
NameToDisplay_LastRecognized(encodings, sofar) ==
    IF encodings = <<>> THEN sofar
    ELSE LET name == MatchFace(KNOWN_ENCODINGS, KNOWN_NAMES, Head(encodings), TOLERANCE)
         IN NameToDisplay_LastRecognized(Tail(encodings),
                                         IF name = "Unknown" THEN sofar ELSE name)

\* the loop of app.py:995-1008: the last face's name stays
RECURSIVE NameToDisplay(_, _)
NameToDisplay(encodings, sofar) ==
    IF encodings = <<>> THEN sofar
    ELSE NameToDisplay(Tail(encodings),
                       MatchFace(KNOWN_ENCODINGS, KNOWN_NAMES, Head(encodings), TOLERANCE))

\* str.upper() on the allergy strings of the model
Upper(s) ==
    CASE s = "None"    -> "NONE"
      [] s = "Unknown" -> "UNKNOWN"
      [] s = "Peanuts" -> "PEANUTS"
      [] OTHER         -> s

\* the defaults of app.py:1024-1028
DefaultDetails ==
    [age |-> "N/A", gender |-> "N/A", allergies |-> "Unknown",
     history |-> "No record found.", last_visit |-> "N/A"]

\* app.py:1021-1028
CurrentDetails(name, records) ==
    IF name # "Unknown" /\ name \in DOMAIN records THEN records[name]
    ELSE DefaultDetails

CurrentAppointments_CaseSensitive(list, name) ==
    SelectSeq(list, LAMBDA app : app.name = name)

\* the list comprehension of app.py:1031-1034
CurrentAppointments(list, name) ==
    SelectSeq(list, LAMBDA app : Lower(app.name) = Lower(name))

\* the colour of the panel's ID line (app.py:1056)
IdColor(name) == IF name # "Unknown" THEN "NEON_CYAN" ELSE "CRITICAL_RED_BGR"

AllergyColor_IgnoresIdentity(details, name) ==
    IF Upper(details.allergies) \notin {"NONE", "N/A"}
    THEN "CRITICAL_RED_BGR" ELSE "NEON_GREEN"

\* the colour of the ALERT line (app.py:1071-1072)
AllergyColor(details, name) ==
    IF Upper(details.allergies) \notin {"NONE", "N/A"} /\ name # "Unknown"
    THEN "CRITICAL_RED_BGR" ELSE "NEON_GREEN"

Frames == UNION {[1..n -> QueryVecs] : n \in 0..MaxFaces}

\* the list comprehension of app.py:1031-1034 reads app['name'] of every entry
Nameable(list) == \A k \in 1..Len(list) : "name" \in DOMAIN list[k]

\* main_menu.start_recognition: the menu window is destroyed, then
\* face_recognition_loop runs.  When the camera does not open it returns
\* without calling main_menu(): the menu's mainloop is left with no window
\* of the program and returns, or is left with the empty default window the
\* message box created, according to the tkinter version.
start_recognition ==
    /\ pc = "menu"
    /\ \E opened \in BOOLEAN, left \in {"exit", "blank"} :
          IF opened
          THEN /\ cap' = "open"
               /\ pc' = "recog"
               /\ log' = <<"INFO">>
               /\ notice' = NoNotice
          ELSE /\ cap' = "none"
               /\ pc' = left
               /\ log' = <<"CRITICAL">>
               /\ notice' = Notice("error", "webcam", 0)
    /\ written' = {}
    /\ UNCHANGED <<stores, files, ret, raised, forms, enroll, panel>>

\* the stored vector of the shown patient averaged with the frame's last face
RecognitionKeepsStores_Adapts ==
    /\ KNOWN_ENCODINGS' =
          IF patient_name_to_display' # "Unknown" /\ face_encodings' # <<>>
          THEN LET q == face_encodings'[Len(face_encodings')]
                   k == ArgMinDistance(KNOWN_ENCODINGS, q)
               IN [KNOWN_ENCODINGS EXCEPT ![k] = Mean(<<KNOWN_ENCODINGS[k], q>>)]
          ELSE KNOWN_ENCODINGS
    /\ UNCHANGED <<PATIENT_RECORDS, APPOINTMENTS, DOCTOR_RECORDS, KNOWN_NAMES, files>>

\* the body of the while loop assigns none of the globals and calls none of
\* the save functions
RecognitionKeepsStores == UNCHANGED <<stores, files>>

\* the locals of face_recognition_loop when it has returned
PanelGone ==
    /\ face_encodings' = <<>>
    /\ patient_name_to_display' = "Unknown"
    /\ current_details' = EmptyDict
    /\ current_appointments' = <<>>
    /\ color' = "none"
    /\ allergy_color' = "none"

\* one iteration of the while loop of face_recognition_loop; after the loop
\* cap.release() and main_menu()
recognition_frame ==
    /\ pc = "recog"
    /\ \/ /\ ret' = FALSE                         \* if not ret: break
          /\ cap' = "released"
          /\ pc' = "menu"
          /\ log' = <<"INFO">>
          /\ PanelGone
          /\ UNCHANGED raised
       \/ \E frame \in Frames, quit \in BOOLEAN :
             LET name == NameToDisplay(frame, "Unknown")
                 details == CurrentDetails(name, PATIENT_RECORDS)
             IN
             /\ ret' = TRUE
             /\ IF ~Nameable(APPOINTMENTS)
                THEN /\ face_encodings' = frame
                     /\ patient_name_to_display' = name
                     /\ current_details' = details
                     /\ UNCHANGED <<current_appointments, color, allergy_color>>
                     /\ raised' = "KeyError"      \* nothing catches it
                     /\ pc' = "exit"
                     /\ log' = <<>>
                     /\ UNCHANGED cap
                ELSE IF quit                      \* the panel is drawn, then "q"
                THEN /\ cap' = "released"
                     /\ pc' = "menu"
                     /\ log' = <<"INFO">>
                     /\ PanelGone
                     /\ UNCHANGED raised
                ELSE /\ face_encodings' = frame
                     /\ patient_name_to_display' = name
                     /\ current_details' = details
                     /\ current_appointments' = CurrentAppointments(APPOINTMENTS, name)
                     /\ color' = IdColor(name)
                     /\ allergy_color' = AllergyColor(details, name)
                     /\ log' = <<>>
                     /\ UNCHANGED <<pc, cap, raised>>
    /\ notice' = NoNotice /\ written' = {}
    /\ UNCHANGED <<forms, enroll>>
    /\ RecognitionKeepsStores

NextLoad ==
    \/ load_patient_records
    \/ load_appointments
    \/ load_doctor_records
    \/ load_known_faces
    \/ main

SpecLoad == Init /\ [][NextLoad]_vars

NextAppt ==
    \/ NextLoad
    \/ start_appointment_flow
    \/ submit_appointment
    \/ close_appointment_form
    \/ start_appointment_manage
    \/ cancel_appointment
    \/ close_manage_window
    \/ start_doctor_management
    \/ start_doctor_registration
    \/ submit_doctor
    \/ close_doctor_form
    \/ back_to_main_menu
    \/ exit_application

\* the appointment flows, with the patient and face stores left out
InitAppt ==
    /\ Init
    /\ patientFile = JsonFile(EmptyDict)
    /\ encFile = MissingFile

SpecAppt == InitAppt /\ [][NextAppt]_vars

(***************************************************************************)
(* Properties of the appointment collection.                               *)
(***************************************************************************)
IsSorted(list) ==
    \A a, b \in 1..Len(list) : a < b => ~KeyLess(list[b], list[a])

\* C2: after any bookings and cancellations the in-memory appointment
\* collection is sorted ascending by (date, time), and every write of the
\* appointments file writes a sequence in that order.  (A list whose entries
\* lack the sort keys is never a state load_appointments returns with.)
C2_SortedAlways ==
    /\ HasSortKeys(APPOINTMENTS) => IsSorted(APPOINTMENTS)
    /\ "appointments" \in written =>
          /\ apptFile.kind = "json"
          /\ apptFile.data = APPOINTMENTS
          /\ IsSorted(apptFile.data)

\* a booking has just been saved into a list of three with different keys
C2_Witness ==
    /\ pc = "menu"
    /\ notice.msg = "booked"
    /\ "appointments" \in written
    /\ Len(APPOINTMENTS) = 3
    /\ KeyLess(APPOINTMENTS[1], APPOINTMENTS[2])
    /\ KeyLess(APPOINTMENTS[2], APPOINTMENTS[3])

\* C3: a confirmed cancellation with displayed index k, 1 <= k <= length,
\* removes exactly the record shown as k, which is the record at position k
\* of the current collection: the result is one shorter and holds all other
\* records in their previous relative order.
C3_CancelRemovesDisplayed ==
    [][(pc = "manage" /\ notice'.msg = "cancelled") =>
          LET k == notice'.id IN
          /\ k \in 1..Len(APPOINTMENTS)
          /\ displayed[k] = APPOINTMENTS[k]
          /\ Len(APPOINTMENTS') = Len(APPOINTMENTS) - 1
          /\ \A j \in 1..Len(APPOINTMENTS') :
                APPOINTMENTS'[j] = APPOINTMENTS[IF j < k THEN j ELSE j + 1]
          /\ apptFile' = JsonFile(APPOINTMENTS')]_vars

\* the second of three appointments has just been cancelled
C3_Witness ==
    /\ pc = "manage"
    /\ notice = Notice("info", "cancelled", 2)
    /\ Len(APPOINTMENTS) = 2
    /\ KeyLess(APPOINTMENTS[1], APPOINTMENTS[2])

\* C4: a cancellation request whose id is <= 0 or greater than the number
\* of appointments is rejected: an error box is shown, the collection and
\* the appointments file are unchanged and nothing is written.
C4_BadIndexRejected ==
    [][(pc = "manage" /\ pc' = "manage" /\ notice'.id \notin 1..Len(APPOINTMENTS)) =>
          /\ notice'.kind = "error"
          /\ UNCHANGED <<APPOINTMENTS, apptFile, displayed>>
          /\ written' = {}]_vars

\* an id one past the end of a non-empty list has just been rejected
C4_Witness ==
    /\ pc = "manage"
    /\ Len(APPOINTMENTS) >= 1
    /\ notice = Notice("error", "invalid id", Len(APPOINTMENTS) + 1)

NextForms ==
    \/ NextLoad
    \/ start_appointment_flow
    \/ submit_appointment
    \/ close_appointment_form
    \/ start_doctor_management
    \/ start_doctor_registration
    \/ submit_doctor
    \/ close_doctor_form
    \/ back_to_main_menu
    \/ start_registration_flow
    \/ submit_registration
    \/ close_registration_form
    \/ open_registration_camera
    \/ exit_application

\* the three forms, from stores that hold a patient and a doctor or none; the
\* capture loop that follows an accepted registration form is in SpecFaces
InitForms ==
    /\ Init
    /\ patientFile \in {JsonFile(EmptyDict),
                        JsonFile(DictPut(EmptyDict, "ann", Details("Peanuts")))}
    /\ apptFile = JsonFile(<<>>)
    /\ doctorFile \in {JsonFile(EmptyDict), JsonFile(DictPut(EmptyDict, "drx", DoctorRec))}
    /\ encFile = MissingFile

SpecForms == InitForms /\ [][NextForms]_vars

(***************************************************************************)
(* Properties of the forms and of the record stores.                       *)
(***************************************************************************)
\* C12: a form submission that fails validation is rejected with nothing
\* persisted: the form shows the error and stays, and the patient, doctor,
\* appointment and vector stores and their files are unchanged.
C12_RejectedSubmitPersistsNothing ==
    [][(pc \in {"regform", "apptform", "docform"} /\ notice'.kind = "error") =>
          /\ pc' = pc
          /\ UNCHANGED <<stores, files>>
          /\ written' = {}]_vars

\* the doctor form has just rejected an identifier that is registered
C12_Witness ==
    /\ pc = "docform"
    /\ notice = Notice("error", "doctor exists", 0)
    /\ "drx" \in DOMAIN DOCTOR_RECORDS
    /\ written = {}

\* the values an upsert can be given
UpsertPatients == {Details("None"), Details("Peanuts")}
UpsertDoctors  == {DoctorRec, [DoctorRec EXCEPT !.contact = "556"]}

\* C13: for the patient store and the doctor store, upsert(k, v) followed
\* by upsert(k, v) gives the same in-memory collection, and so the same
\* persisted file, as one upsert(k, v), whether or not k was stored before.
C13_UpsertIdempotent ==
    /\ \A name \in {"ann", "bob"}, data \in UpsertPatients :
          LET once == SavePatientRecord(PATIENT_RECORDS, name, data) IN
          /\ once[name] = data
          /\ SavePatientRecord(once, name, data) = once
          /\ JsonFile(SavePatientRecord(once, name, data)) = JsonFile(once)
    /\ \A name \in {"drx", "dry"}, data \in UpsertDoctors :
          LET once == SaveDoctorRecord(DOCTOR_RECORDS, name, data) IN
          /\ once[name] = data
          /\ SaveDoctorRecord(once, name, data) = once
          /\ JsonFile(SaveDoctorRecord(once, name, data)) = JsonFile(once)

\* a doctor has just been saved by the form and a patient is stored: the
\* upserts above meet a stored key and a new one in both stores
C13_Witness ==
    /\ pc = "docmenu"
    /\ notice.msg = "doctor registered"
    /\ DOMAIN DOCTOR_RECORDS = {"drx"}
    /\ doctorFile = JsonFile(DOCTOR_RECORDS)
    /\ DOMAIN PATIENT_RECORDS = {"ann"}

NextFaces ==
    \/ NextLoad
    \/ start_registration_flow
    \/ submit_registration
    \/ close_registration_form
    \/ open_registration_camera
    \/ capture_attempt
    \/ finish_registration
    \/ start_recognition
    \/ recognition_frame
    \/ exit_application

\* the camera flows, with no doctor and the appointments the file brings
InitFaces ==
    /\ Init
    /\ patientFile \in {SyntaxFile, JsonFile(EmptyDict),
                        JsonFile(DictPut(EmptyDict, "ann", Details("Peanuts")))}
    /\ apptFile \in {JsonFile(<<>>), JsonFile(<<NoNameAppt>>),
                     JsonFile(<<Appt("ann", 2, <<9, 0>>, "followup", "drx"),
                                Appt("Ann", 1, <<9, 0>>, "checkup", "drx"),
                                Appt("bob", 1, <<13, 30>>, "checkup", "drx")>>)}
    /\ doctorFile = JsonFile(EmptyDict)
    /\ encFile \in {MissingFile, UnreadableFile,
                    PickleFile(<<(<<(2 * Unit) \div 3, Unit \div 3>>)>>, <<"ann">>)}

SpecFaces == InitFaces /\ [][NextFaces]_vars

(***************************************************************************)
(* Properties of the vector store, of enrollment and of the loaders.       *)
(***************************************************************************)
Within(stored, q, t) == DistanceSq(stored, q) <= t * t

Tolerances == {0, TOLERANCE, (3 * Unit) \div 4, 2 * Unit}

\* what C1 asks of a returned name for query q and tolerance t
MatchContract(name, q, t) ==
    /\ (name = "Unknown") <=>
          (\A k \in 1..Len(KNOWN_ENCODINGS) : ~Within(KNOWN_ENCODINGS[k], q, t))
    /\ (name # "Unknown") =>
          \E k \in 1..Len(KNOWN_ENCODINGS) :
             /\ KNOWN_NAMES[k] = name
             /\ Within(KNOWN_ENCODINGS[k], q, t)
             /\ \A j \in 1..Len(KNOWN_ENCODINGS) :
                   Within(KNOWN_ENCODINGS[j], q, t) =>
                      DistanceSq(KNOWN_ENCODINGS[k], q) <= DistanceSq(KNOWN_ENCODINGS[j], q)

\* C1: for every tolerance, query vector and store content the match step
\* returns "Unknown" iff no stored vector is within tolerance of the query,
\* and otherwise the identifier of a stored vector at the least distance
\* among those within tolerance; the name the loop shows for the last face
\* of a frame is such a name for TOLERANCE.
C1_MatchIsNearestWithin ==
    /\ \A q \in QueryVecs, t \in Tolerances :
          MatchContract(MatchFace(KNOWN_ENCODINGS, KNOWN_NAMES, q, t), q, t)
    /\ (pc = "recog" /\ face_encodings # <<>>) =>
          MatchContract(patient_name_to_display,
                        face_encodings[Len(face_encodings)], TOLERANCE)

\* a frame whose last face is within tolerance of both stored vectors and
\* strictly nearer to the second, which is the one shown
C1_Witness ==
    /\ pc = "recog"
    /\ Len(KNOWN_ENCODINGS) = 2
    /\ face_encodings # <<>>
    /\ LET q == face_encodings[Len(face_encodings)] IN
       /\ Within(KNOWN_ENCODINGS[1], q, TOLERANCE)
       /\ Within(KNOWN_ENCODINGS[2], q, TOLERANCE)
       /\ DistanceSq(KNOWN_ENCODINGS[2], q) < DistanceSq(KNOWN_ENCODINGS[1], q)
    /\ KNOWN_NAMES[1] # KNOWN_NAMES[2]
    /\ patient_name_to_display = KNOWN_NAMES[2]

\* C5: a successful enrollment appends exactly one entry, whose vector is
\* the element-wise mean of the accepted captures and whose label is the
\* patient's identifier; the entries stored before stay as they were.
C5_EnrollAppendsMean ==
    [][(pc = "enroll" /\ notice'.msg = "registration complete") =>
          LET n == Len(new_encodings)
              last == Len(KNOWN_ENCODINGS) + 1
          IN
          /\ n >= 1
          /\ Len(KNOWN_ENCODINGS') = last
          /\ Len(KNOWN_NAMES') = Len(KNOWN_NAMES) + 1
          /\ SubSeq(KNOWN_ENCODINGS', 1, last - 1) = KNOWN_ENCODINGS
          /\ SubSeq(KNOWN_NAMES', 1, Len(KNOWN_NAMES)) = KNOWN_NAMES
          /\ KNOWN_NAMES'[Len(KNOWN_NAMES')] = patient_data.name
          /\ \A d \in Dims :
                KNOWN_ENCODINGS'[last][d] * n = SumOf(new_encodings, d)]_vars

\* a second patient has just been enrolled with the mean of two captures of
\* one vector and three of the other
C5_Witness ==
    /\ pc = "menu"
    /\ notice.msg = "registration complete"
    /\ Len(KNOWN_ENCODINGS) = 2
    /\ KNOWN_ENCODINGS[2] = <<(2 * Unit) \div 5, (3 * Unit) \div 5>>
    /\ encFile = PickleFile(KNOWN_ENCODINGS, KNOWN_NAMES)

\* C6: a session that ends with no accepted capture fails: nothing is
\* appended to the vector store, no patient record is saved, neither file is
\* written, and the operator is shown the failure.
C6_ZeroCapturesFail ==
    [][(pc = "enroll" /\ range_next = NUM_REGISTRATION_IMAGES /\ new_encodings = <<>>) =>
          /\ UNCHANGED <<KNOWN_ENCODINGS, KNOWN_NAMES, PATIENT_RECORDS, encFile, patientFile>>
          /\ written' = {}
          /\ raised' = "none"
          /\ notice'.kind = "error"]_vars

\* a session with no accepted capture has just ended
C6_Witness ==
    /\ pc = "menu"
    /\ notice = Notice("error", "captures", 0)
    /\ cap = "released"

\* the captures the session can still accept
SlotsLeft == NUM_REGISTRATION_IMAGES - range_next

\* C7: a capture attempt that finds zero or several faces is retried without
\* using up one of the target slots: the captures that can still be accepted
\* are as many as before the attempt.
C7_RetryKeepsSlot ==
    [][(pc = "enroll" /\ pc' = "enroll" /\ ret' /\ face_locations' # 1) =>
          SlotsLeft' = SlotsLeft]_vars

\* the shapes of a present file that make it corrupt
CorruptJson(file) == file.kind \in {"syntax", "bytes"}

CorruptAppointments(file) ==
    CorruptJson(file) \/ (file.kind = "json" /\ ~HasSortKeys(file.data))

\* C8: loading a present but corrupt patient, doctor or appointment file
\* never raises: the store becomes the empty collection and a CRITICAL
\* message is logged.
C8_CorruptJsonDegrades ==
    [][/\ (pc = "load_patient_records" /\ CorruptJson(patientFile)) =>
             (raised' = "none" /\ PATIENT_RECORDS' = EmptyDict /\ log' = <<"CRITICAL">>)
       /\ (pc = "load_appointments" /\ CorruptAppointments(apptFile)) =>
             (raised' = "none" /\ APPOINTMENTS' = <<>> /\ log' = <<"CRITICAL">>)
       /\ (pc = "load_doctor_records" /\ CorruptJson(doctorFile)) =>
             (raised' = "none" /\ DOCTOR_RECORDS' = EmptyDict /\ log' = <<"CRITICAL">>)]_vars

CorruptPickle(file) == file.kind \in {"unreadable", "unpicklable", "nokeys"}

InLog(level, lines) == \E k \in 1..Len(lines) : lines[k] = level

\* C9 as stated: loading a corrupt or unreadable known-faces file returns an
\* empty store and logs a warning.
C9_CorruptPickleWarns ==
    [][(pc = "load_known_faces" /\ CorruptPickle(encFile)) =>
          /\ raised' = "none"
          /\ KNOWN_ENCODINGS' = <<>> /\ KNOWN_NAMES' = <<>>
          /\ InLog("WARNING", log')]_vars

\* C9, amended: loading a corrupt or unreadable known-faces file does not
\* end the process: load_known_faces returns an empty store and logs a
\* CRITICAL message, and __main__ goes on.
C9_CorruptPickleDegrades ==
    [][(pc = "load_known_faces" /\ CorruptPickle(encFile)) =>
          /\ raised' = "none"
          /\ pc' = "main"
          /\ KNOWN_ENCODINGS' = <<>> /\ KNOWN_NAMES' = <<>>
          /\ InLog("CRITICAL", log')
          /\ UNCHANGED files]_vars

\* load_known_faces has just returned from a file that is no pickle
C9_Witness ==
    /\ pc = "main"
    /\ encFile.kind = "unpicklable"
    /\ log = <<"INFO", "CRITICAL">>
    /\ KNOWN_ENCODINGS = <<>>
    /\ KNOWN_NAMES = <<>>

\* C10: whenever a flow that opened the camera has returned control (the
\* menu is up again, or every flow has returned), the camera is released.
C10_CameraReleased ==
    pc \notin {"enroll", "recog"} => cap # "open"

\* C11: when the camera fails to open, in the recognition flow and in the
\* registration flow alike, the operator is shown the blocking notice and
\* the flow returns to the main menu: the menu is displayed again and the
\* application does not terminate.
C11_CameraFailureReturnsToMenu ==
    [][(notice'.msg = "webcam") =>
          (notice'.kind = "error" /\ pc' = "menu" /\ raised' = "none")]_vars

\* C14: after any sequence of registrations no identifier occurs more than
\* once in the label sequence of the vector store.
C14_OneVectorPerPatient ==
    \A a, b \in 1..Len(KNOWN_NAMES) : a # b => KNOWN_NAMES[a] # KNOWN_NAMES[b]

\* C15: whenever a vector is appended to the vector store, it is the mean
\* of exactly NUM_REGISTRATION_IMAGES accepted capture vectors.
C15_EnrollAfterNCaptures ==
    [][(pc = "enroll" /\ Len(KNOWN_ENCODINGS') > Len(KNOWN_ENCODINGS)) =>
          Len(new_encodings) = NUM_REGISTRATION_IMAGES]_vars

\* a stored vector that is within tolerance of q, at the least distance, and
\* the first in storage order at that distance
FirstNearest(k, q) ==
    /\ Within(KNOWN_ENCODINGS[k], q, TOLERANCE)
    /\ \A j \in 1..Len(KNOWN_ENCODINGS) :
          DistanceSq(KNOWN_ENCODINGS[k], q) <= DistanceSq(KNOWN_ENCODINGS[j], q)
    /\ \A j \in 1..(k - 1) :
          DistanceSq(KNOWN_ENCODINGS[j], q) # DistanceSq(KNOWN_ENCODINGS[k], q)

\* C16: when several stored vectors are within tolerance and share the
\* least distance to the query, the match step returns the identifier of the
\* one that comes first in storage order.
C16_TieGoesToFirstStored ==
    /\ \A q \in QueryVecs, k \in 1..Len(KNOWN_ENCODINGS) :
          FirstNearest(k, q) =>
             MatchFace(KNOWN_ENCODINGS, KNOWN_NAMES, q, TOLERANCE) = KNOWN_NAMES[k]
    /\ (pc = "recog" /\ face_encodings # <<>>) =>
          \A k \in 1..Len(KNOWN_ENCODINGS) :
             FirstNearest(k, face_encodings[Len(face_encodings)]) =>
                patient_name_to_display = KNOWN_NAMES[k]

\* two differently labelled stored vectors, not equal, at the same distance
\* within tolerance of the frame's last face; the first one's label is shown
C16_Witness ==
    /\ pc = "recog"
    /\ face_encodings # <<>>
    /\ Len(KNOWN_ENCODINGS) = 2
    /\ KNOWN_NAMES[1] # KNOWN_NAMES[2]
    /\ KNOWN_ENCODINGS[1] # KNOWN_ENCODINGS[2]
    /\ LET q == face_encodings[Len(face_encodings)] IN
       /\ Within(KNOWN_ENCODINGS[1], q, TOLERANCE)
       /\ DistanceSq(KNOWN_ENCODINGS[1], q) = DistanceSq(KNOWN_ENCODINGS[2], q)
    /\ patient_name_to_display = KNOWN_NAMES[1]

\* the recognition loop has drawn the panel of a frame
PanelDrawn == pc = "recog" /\ color # "none"

\* C17 as stated: for a matched identifier that has no patient record the
\* panel is as for an unknown face: the default attributes, and the allergy
\* alert in the colour it has for an unknown face.
C17_NoRecordShownAsUnknown ==
    (PanelDrawn /\ patient_name_to_display # "Unknown"
                /\ patient_name_to_display \notin DOMAIN PATIENT_RECORDS) =>
       /\ current_details = DefaultDetails
       /\ allergy_color = "NEON_GREEN"

\* C17, amended: a matched identifier without a record gets the same
\* default attributes as an unknown face, but not the same styling: its ID
\* line has the colour of a known identity and its allergy alert is
\* escalated, while the alert of an unknown face is not.
C17_NoRecordGetsDefaults ==
    PanelDrawn =>
       /\ (patient_name_to_display = "Unknown"
            \/ patient_name_to_display \notin DOMAIN PATIENT_RECORDS) =>
              current_details = DefaultDetails
       /\ patient_name_to_display = "Unknown" =>
              (color = "CRITICAL_RED_BGR" /\ allergy_color = "NEON_GREEN")
       /\ (patient_name_to_display # "Unknown"
            /\ patient_name_to_display \notin DOMAIN PATIENT_RECORDS) =>
              (color = "NEON_CYAN" /\ allergy_color = "CRITICAL_RED_BGR")

\* the panel of a frame whose last face matched a label without a record
C17_Witness ==
    /\ PanelDrawn
    /\ patient_name_to_display = "ann"
    /\ "ann" \notin DOMAIN PATIENT_RECORDS
    /\ current_details = DefaultDetails
    /\ allergy_color = "CRITICAL_RED_BGR"

\* C18: the panel's appointment list is exactly the sub-sequence, in stored
\* order, of all appointment records whose patient identifier equals the
\* displayed identifier case-insensitively, whatever their dates.
C18_AppointmentsOfDisplayed ==
    PanelDrawn =>
       LET own == {k \in 1..Len(APPOINTMENTS) :
                     Lower(APPOINTMENTS[k].name) = Lower(patient_name_to_display)}
       IN
       /\ Len(current_appointments) = Cardinality(own)
       /\ \E at \in [1..Len(current_appointments) -> own] :
             /\ \A a, b \in 1..Len(current_appointments) : a < b => at[a] < at[b]
             /\ \A a \in 1..Len(current_appointments) :
                   current_appointments[a] = APPOINTMENTS[at[a]]

\* the panel of "ann" lists the appointment booked as "Ann" on the earlier
\* date and the one booked as "ann" on the later date, and not bob's
C18_Witness ==
    /\ PanelDrawn
    /\ patient_name_to_display = "ann"
    /\ Len(APPOINTMENTS) = 3
    /\ Len(current_appointments) = 2
    /\ current_appointments[1].name = "Ann" /\ current_appointments[1].date = 1
    /\ current_appointments[2].name = "ann" /\ current_appointments[2].date = 2

\* C19: the panel's identity is the match result of the last face of the
\* frame, known or "Unknown"; it is "Unknown" for a frame without a face;
\* it is a function of this frame and the stores alone.
C19_LastFaceWins ==
    PanelDrawn =>
       patient_name_to_display =
          IF face_encodings = <<>> THEN "Unknown"
          ELSE MatchFace(KNOWN_ENCODINGS, KNOWN_NAMES,
                         face_encodings[Len(face_encodings)], TOLERANCE)

\* a frame of two faces whose first is a known patient and whose last is not
C19_Witness ==
    /\ PanelDrawn
    /\ Len(face_encodings) = 2
    /\ MatchFace(KNOWN_ENCODINGS, KNOWN_NAMES, face_encodings[1], TOLERANCE) # "Unknown"
    /\ patient_name_to_display = "Unknown"

\* C20: a step of the recognition loop changes none of the stores and none
\* of their files: no stored vector is updated after it was created.
C20_RecognitionReadsOnly ==
    [][pc = "recog" => UNCHANGED <<stores, files>>]_vars

\* a frame in which a stored patient has just been recognised
C20_Witness ==
    /\ PanelDrawn
    /\ KNOWN_ENCODINGS # <<>>
    /\ patient_name_to_display = KNOWN_NAMES[1]
    /\ current_details # DefaultDetails

(***************************************************************************)
(* The registration flow alone, from files whose labels and record keys    *)
(* agree, and the same with the progress of the capture loop: the loop     *)
(* body and the code after it run to their end without waiting for the     *)
(* operator.                                                               *)
(***************************************************************************)
NextEnroll ==
    \/ NextLoad
    \/ start_registration_flow
    \/ submit_registration
    \/ close_registration_form
    \/ open_registration_camera
    \/ capture_attempt
    \/ finish_registration
    \/ exit_application

InitEnroll ==
    /\ Init
    /\ apptFile = JsonFile(<<>>)
    /\ doctorFile = JsonFile(EmptyDict)
    /\ <<patientFile, encFile>> \in
          {<<JsonFile(EmptyDict), MissingFile>>,
           <<MissingFile, PickleFile(<<>>, <<>>)>>,
           <<SyntaxFile, UnreadableFile>>,
           <<JsonFile(DictPut(EmptyDict, "ann", Details("Peanuts"))),
             PickleFile(<<(<<(2 * Unit) \div 3, Unit \div 3>>)>>, <<"ann">>)>>}

SpecEnroll == InitEnroll /\ [][NextEnroll]_vars

SpecEnrollFair ==
    SpecEnroll /\ WF_vars(capture_attempt) /\ WF_vars(finish_registration)

\* the identifiers the two patient stores hold
LabelSet == {KNOWN_NAMES[k] : k \in 1..Len(KNOWN_NAMES)}

StoredIds == LabelSet \cup DOMAIN PATIENT_RECORDS

\* C21: after any registration submissions no stored patient identifier,
\* record key or vector label, is empty or equal to "unknown" whatever its
\* case: no stored label is the sentinel of the match step.
C21_NoReservedIdStored ==
    \A id \in StoredIds : id # "" /\ id # "Unknown" /\ Lower(id) # "unknown"

\* a second patient has just been stored, under a name the form accepted
C21_Witness ==
    /\ pc = "menu"
    /\ notice.msg = "registration complete"
    /\ Len(KNOWN_NAMES) = 2
    /\ KNOWN_NAMES[2] = "bob"
    /\ "bob" \in DOMAIN PATIENT_RECORDS

C23_StoresAgree ==
    pc \in {"main", "menu", "regform", "reg_open_camera", "enroll"} =>
       LabelSet = DOMAIN PATIENT_RECORDS

\* bob has just been enrolled next to ann
C23_Witness ==
    /\ pc = "menu"
    /\ notice.msg = "registration complete"
    /\ LabelSet = {"ann", "bob"}
    /\ DOMAIN PATIENT_RECORDS = {"ann", "bob"}
    /\ patientFile = JsonFile(PATIENT_RECORDS)

(***************************************************************************)
(* Booking and triage: the booking form and the recognition loop, with a   *)
(* doctor on file and at most one patient enrolled.                        *)
(***************************************************************************)
NextTriage ==
    \/ NextLoad
    \/ start_appointment_flow
    \/ submit_appointment
    \/ close_appointment_form
    \/ start_recognition
    \/ recognition_frame
    \/ exit_application

InitTriage ==
    /\ Init
    /\ apptFile = JsonFile(<<>>)
    /\ doctorFile = JsonFile(DictPut(EmptyDict, "drx", DoctorRec))
    /\ <<patientFile, encFile>> \in
          {<<JsonFile(EmptyDict), MissingFile>>,
           <<JsonFile(DictPut(EmptyDict, "ann", Details("Peanuts"))),
             PickleFile(<<(<<Unit, 0>>)>>, <<"ann">>)>>}

SpecTriage == InitTriage /\ [][NextTriage]_vars

\* C24: whenever the panel's identity is "Unknown" (no face, or no face
\* within tolerance) the panel's appointment list is empty, whatever was
\* booked through the booking form.
C24_UnknownShowsNoAppointments ==
    (PanelDrawn /\ patient_name_to_display = "Unknown") => current_appointments = <<>>

(***************************************************************************)
(* The appointment and doctor flows from empty stores.                     *)
(***************************************************************************)
NextBook == NextAppt

InitBook ==
    /\ Init
    /\ patientFile = JsonFile(EmptyDict)
    /\ apptFile \in {MissingFile, SyntaxFile, JsonFile(<<>>)}
    /\ doctorFile \in {MissingFile, JsonFile(EmptyDict)}
    /\ encFile = MissingFile

SpecBook == InitBook /\ [][NextBook]_vars

\* C25: from empty stores, after any doctor registrations, bookings and
\* cancellations every appointment of the collection names a doctor that is
\* a key of the doctor records, and none names the placeholder
\* "No Doctors Registered".
C25_AppointmentsNameADoctor ==
    \A k \in 1..Len(APPOINTMENTS) :
       /\ APPOINTMENTS[k].doctor \in DOMAIN DOCTOR_RECORDS
       /\ APPOINTMENTS[k].doctor # "No Doctors Registered"

\* a doctor was registered, appointments were booked with that doctor, and
\* one of them has just been cancelled
C25_Witness ==
    /\ pc = "manage"
    /\ notice.msg = "cancelled"
    /\ Len(APPOINTMENTS) = 2
    /\ APPOINTMENTS[1].doctor = "drx"
    /\ DOMAIN DOCTOR_RECORDS = {"drx"}

====
